---- MODULE Spec2Model ----
(***************************************************************************)
(* Model of source_s3/v4/config.py: the Config field declarations, the     *)
(* root validator validate_optional_args and the schema pruning of         *)
(* Config.schema.                                                          *)
(*                                                                         *)
(* Python strings are sequences of one-character strings, so that          *)
(* str.startswith and slicing are computed, not assumed.  A JSON value is  *)
(* a record [t, s]: t is its type tag and s its characters (for a string). *)
(***************************************************************************)
EXTENDS Integers, Sequences, FiniteSets, TLC

\* modeLog is the deployment mode in force at the previous call (if any) and
\* at the last call, oldest first
VARIABLES cloud, modeLog, raw, values, fieldErrors, rootError, checks, result,
          schemaIn, schemaOut, schemaResult

configVars == <<cloud, modeLog, raw, values, fieldErrors, rootError, checks, result>>
schemaVars == <<schemaIn, schemaOut, schemaResult>>
vars == <<cloud, modeLog, raw, values, fieldErrors, rootError, checks, result,
          schemaIn, schemaOut, schemaResult>>

(* ------------------------------ bounds --------------------------------- *)
\* longest host part appended to an endpoint scheme
MaxHostLen == 1
\* most entries of the processing oneOf list of a generated schema
MaxOptions == 3

(* ------------------------------ values --------------------------------- *)
None == [t |-> "none", s |-> <<>>]
Missing == [t |-> "missing", s |-> <<>>]
\* a JSON array given where a string is declared: pydantic cannot coerce it
NotAString == [t |-> "list", s |-> <<>>]
Str(chars) == [t |-> "str", s |-> chars]

\* Python truthiness of an Optional[str]: None and "" are falsy
Truthy(v) == v.t = "str" /\ Len(v.s) > 0

\* str.startswith(prefix)
startswith(str, prefix) ==
    /\ Len(str) >= Len(prefix)
    /\ SubSeq(str, 1, Len(prefix)) = prefix

RECURSIVE SeqsUpTo(_, _)
SeqsUpTo(chars, n) ==
    IF n = 0 THEN {<<>>}
    ELSE LET shorter == SeqsUpTo(chars, n - 1)
         IN  shorter \cup {Append(w, c) : w \in shorter, c \in chars}

(* --------------------------- field declarations ------------------------ *)
Fields == {"bucket", "aws_access_key_id", "aws_secret_access_key",
           "role_arn", "customer_role_arn", "endpoint"}

\* bucket: str = Field(...) has no default, so it is required
RequiredFields == {"bucket"}

\* default=None for the Optional[str] fields, default="" for endpoint
FieldDefault(f) == IF f = "endpoint" THEN Str(<<>>) ELSE None

\* field-level parsing of one raw value against `str` / `Optional[str]`
FieldParses(f, v) ==
    CASE v.t = "missing" -> f \notin RequiredFields
      [] v.t = "none"    -> f \notin RequiredFields
      [] v.t = "str"     -> TRUE
      [] OTHER           -> FALSE

\* the mapping the root validator receives: the fields that parsed, with
\* defaults filled in; a field that failed to parse is not in it
ParsedValues(input) ==
    [f \in {g \in Fields : FieldParses(g, input[g])} |->
        IF input[f].t = "missing" THEN FieldDefault(f) ELSE input[f]]

FieldParseErrors(input) == {f \in Fields : ~FieldParses(f, input[f])}

\* dict.get(key): None when the key is not in the mapping
Get(vals, f) == IF f \in DOMAIN vals THEN vals[f] ELSE None

(* ------------------------- the environment probe ----------------------- *)
\* a probe that answers with the mode it saw at the previous call
is_cloud_environment_cached ==
    IF modeLog = <<>> THEN cloud ELSE modeLog[Len(modeLog)]

\* is_cloud_environment(): the deployment mode in force now
is_cloud_environment == cloud

(* ------------------------- validate_optional_args ---------------------- *)
HttpPrefix == <<"h", "t", "t", "p", ":", "/", "/">>
HttpsPrefix == <<"h", "t", "t", "p", "s", ":", "/", "/">>

\* a prefix test that forgets the "://" and so also catches https
InsecureEndpoint_AnyHttp(endpoint) ==
    Truthy(endpoint) /\ startswith(endpoint.s, <<"h", "t", "t", "p">>)

\* an equality test instead of a prefix test
InsecureEndpoint_Exact(endpoint) ==
    Truthy(endpoint) /\ endpoint.s = HttpPrefix

\* if endpoint: if endpoint.startswith("http://")
InsecureEndpoint(endpoint) ==
    Truthy(endpoint) /\ startswith(endpoint.s, HttpPrefix)

\* a pair test that forgets the "and not both"
CredentialPairBroken_Either(key, secret) == Truthy(key) \/ Truthy(secret)

\* a pair test that only notices a key without a secret
CredentialPairBroken_KeyOnly(key, secret) == Truthy(key) /\ ~Truthy(secret)

\* (key or secret) and not (key and secret)
CredentialPairBroken(key, secret) ==
    (Truthy(key) \/ Truthy(secret)) /\ ~(Truthy(key) /\ Truthy(secret))

\* a chain test on "is None" instead of truthiness
RoleChainBroken_IsNone(customer_role_arn, role_arn) ==
    customer_role_arn.t # "none" /\ role_arn.t = "none"

\* customer_role_arn and not role_arn
RoleChainBroken(customer_role_arn, role_arn) ==
    Truthy(customer_role_arn) /\ ~Truthy(role_arn)

\* the validator with the role check placed before the credential check
validate_optional_args_RoleFirst(vals) ==
    IF RoleChainBroken(Get(vals, "customer_role_arn"), Get(vals, "role_arn"))
    THEN [error |-> "RoleChainMissingParent", ran |-> <<"role_chaining">>]
    ELSE IF CredentialPairBroken(Get(vals, "aws_access_key_id"),
                                 Get(vals, "aws_secret_access_key"))
    THEN [error |-> "CredentialPairIncomplete",
          ran |-> <<"role_chaining", "credential_pair">>]
    ELSE IF is_cloud_environment /\ InsecureEndpoint(Get(vals, "endpoint"))
    THEN [error |-> "InsecureEndpointInRestrictedMode",
          ran |-> <<"role_chaining", "credential_pair", "endpoint">>]
    ELSE [error |-> "none",
          ran |-> <<"role_chaining", "credential_pair", "endpoint">>]

\* The body of validate_optional_args: the error it raises ("none" when it
\* returns values) and the checks it evaluated, in order.
validate_optional_args(vals) ==
    IF CredentialPairBroken(Get(vals, "aws_access_key_id"),
                            Get(vals, "aws_secret_access_key"))
    THEN [error |-> "CredentialPairIncomplete", ran |-> <<"credential_pair">>]
    ELSE IF RoleChainBroken(Get(vals, "customer_role_arn"), Get(vals, "role_arn"))
    THEN [error |-> "RoleChainMissingParent",
          ran |-> <<"credential_pair", "role_chaining">>]
    ELSE IF is_cloud_environment /\ InsecureEndpoint(Get(vals, "endpoint"))
    THEN [error |-> "InsecureEndpointInRestrictedMode",
          ran |-> <<"credential_pair", "role_chaining", "endpoint">>]
    ELSE [error |-> "none",
          ran |-> <<"credential_pair", "role_chaining", "endpoint">>]

\* @root_validator is used bare: pre=False, skip_on_failure=False, so the
\* validator is called with the parsed fields even when a field failed
skip_on_failure == FALSE

RootValidation(input) ==
    IF skip_on_failure /\ FieldParseErrors(input) # {}
    THEN [error |-> "none", ran |-> <<>>]
    ELSE validate_optional_args(ParsedValues(input))

(* ------------------------------ inputs --------------------------------- *)
\* the validator only tests a credential or role for emptiness
Texts == {Str(<<>>), Str(<<"k">>)}
\* an optional field left out reads as its default None, so None stands for both
OptionalInputs == {None, NotAString} \cup Texts
RoleInputs == {None} \cup Texts
BucketInputs == {Missing, Str(<<"b">>)}

Schemes == {<<>>, HttpPrefix, HttpsPrefix,
            <<"H", "T", "T", "P", ":", "/", "/">>,
            <<"h", "t", "t", "p", ":", "/">>}
EndpointInputs ==
    {Missing, None, NotAString}
        \cup {Str(sch \o host) : sch \in Schemes, host \in SeqsUpTo({"a"}, MaxHostLen)}

RawConfigs ==
    [bucket : BucketInputs,
     aws_access_key_id : OptionalInputs,
     aws_secret_access_key : OptionalInputs,
     role_arn : RoleInputs,
     customer_role_arn : RoleInputs,
     endpoint : EndpointInputs]

NoInput == [f \in Fields |-> Missing]
NoValues == [f \in {} |-> None]
EmptyDoc == [p \in {} |-> None]

(* ------------------------------ actions -------------------------------- *)
\* Config(**input): field parsing, then the root validator
Construct(input) ==
    LET outcome == RootValidation(input)
    IN  /\ result = "none"
        /\ raw' = input
        /\ modeLog' = IF modeLog = <<>>
                      THEN <<cloud>>
                      ELSE <<modeLog[Len(modeLog)], cloud>>
        /\ values' = ParsedValues(input)
        /\ fieldErrors' = FieldParseErrors(input)
        /\ rootError' = outcome.error
        /\ checks' = outcome.ran
        /\ result' = IF FieldParseErrors(input) = {} /\ outcome.error = "none"
                     THEN "accepted" ELSE "rejected"
        /\ UNCHANGED <<cloud, schemaVars>>

\* the environment changes the deployment mode between calls
SetDeploymentMode ==
    /\ cloud' = ~cloud
    /\ UNCHANGED <<modeLog, raw, values, fieldErrors, rootError, checks, result,
                   schemaVars>>

\* the invocation ends: the instance is dropped, the next invocation builds
\* its own from fresh input
Discard ==
    /\ result # "none"
    /\ raw' = NoInput
    /\ values' = NoValues
    /\ fieldErrors' = {}
    /\ rootError' = "none"
    /\ checks' = <<>>
    /\ result' = "none"
    /\ UNCHANGED <<cloud, modeLog, schemaVars>>

Init ==
    /\ cloud \in BOOLEAN
    /\ modeLog = <<>>
    /\ raw = NoInput
    /\ values = NoValues
    /\ fieldErrors = {}
    /\ rootError = "none"
    /\ checks = <<>>
    /\ result = "none"
    /\ schemaIn = EmptyDoc
    /\ schemaOut = EmptyDoc
    /\ schemaResult = "none"

Next ==
    \/ \E input \in RawConfigs : Construct(input)
    \/ SetDeploymentMode
    \/ Discard

Spec == Init /\ [][Next]_vars

(* --------------------------- schema documents -------------------------- *)
(* A schema document is a tree, held flat: a function from the path of     *)
(* every node (dict keys, and list indices written in decimal as dpath     *)
(* compares them) to the node.  The children of a node are the paths one   *)
(* segment longer.                                                         *)
DictNode == [t |-> "dict", s |-> <<>>]
ListNode == [t |-> "list", s |-> <<>>]
NumNode == [t |-> "num", s |-> <<>>]

\* "properties/streams/items/properties/format/oneOf/4/properties/processing/oneOf"
ProcessingPath == <<"properties", "streams", "items", "properties", "format",
                    "oneOf", "4", "properties", "processing", "oneOf">>

IsPrefix(p, r) == Len(p) <= Len(r) /\ SubSeq(r, 1, Len(p)) = p

IdxStr(i) == <<"0", "1", "2", "3", "4", "5", "6", "7", "8", "9">>[i + 1]

\* the subtree of doc rooted at path p, with paths relative to p
Subtree(doc, p) ==
    [q \in {SubSeq(r, Len(p) + 1, Len(r)) : r \in {x \in DOMAIN doc : IsPrefix(p, x)}}
        |-> doc[p \o q]]

\* dpath.util.get finds a value when a node of the document has this path
Resolves(doc, glob) == glob \in DOMAIN doc

\* dpath.util.get(doc, glob), for a glob that resolves
dpath_get(doc, glob) == Subtree(doc, glob)

\* value[:1] is defined for a list and for a string
Sliceable(tree) == tree[<<>>].t \in {"list", "str"}

\* a slice that keeps the first two entries
FirstOnly_FirstTwo(tree) ==
    IF tree[<<>>].t = "list"
    THEN [q \in {x \in DOMAIN tree : x = <<>> \/ x[1] \in {"0", "1"}} |-> tree[q]]
    ELSE [q \in {<<>>} |->
            Str(SubSeq(tree[<<>>].s, 1, IF Len(tree[<<>>].s) < 2
                                        THEN Len(tree[<<>>].s) ELSE 2))]

\* processing_options[:1]: the first entry of a list, the first character
\* of a string
FirstOnly(tree) ==
    IF tree[<<>>].t = "list"
    THEN [q \in {x \in DOMAIN tree : x = <<>> \/ x[1] = "0"} |-> tree[q]]
    ELSE [q \in {<<>>} |->
            Str(SubSeq(tree[<<>>].s, 1, IF Len(tree[<<>>].s) < 1
                                        THEN Len(tree[<<>>].s) ELSE 1))]

\* dpath.util.set(doc, glob, tree): the value at the path is replaced
dpath_set(doc, glob, tree) ==
    IF ~Resolves(doc, glob) THEN doc
    ELSE LET kept == {r \in DOMAIN doc : ~IsPrefix(glob, r)}
             new  == {glob \o q : q \in DOMAIN tree}
         IN  [r \in kept \cup new |->
                IF r \in kept THEN doc[r] ELSE tree[SubSeq(r, Len(glob) + 1, Len(r))]]

(* ------------------- the documents super().schema() yields ------------- *)
\* a oneOf list of n options, each a dict with its own title
OptionList(n) ==
    [q \in {<<>>} \cup {<<IdxStr(i)>> : i \in 0..(n - 1)}
           \cup {<<IdxStr(i), "title">> : i \in 0..(n - 1)} |->
        IF q = <<>> THEN ListNode
        ELSE IF Len(q) = 1 THEN DictNode
        ELSE Str(<<"o", q[1]>>)]

Leaf(node) == [q \in {<<>>} |-> node]

\* what can stand where the document is cut short, or at the end of the path
EndTrees ==
    {OptionList(n) : n \in 0..MaxOptions}
        \cup {Leaf(DictNode), Leaf(None), Leaf(NumNode),
              Leaf(Str(<<>>)), Leaf(Str(<<"a">>)), Leaf(Str(<<"a", "b">>))}

\* the containers on the way down to depth d: dicts, and a list where the
\* next segment is an index; the list holds the four format variants before
\* the one the path goes through
Spine(d) ==
    [p \in {SubSeq(ProcessingPath, 1, i) : i \in 0..(d - 1)} |->
        IF ProcessingPath[Len(p) + 1] = "4" THEN ListNode ELSE DictNode]

FormatVariants(d) ==
    IF d > 6
    THEN [p \in {SubSeq(ProcessingPath, 1, 6) \o <<IdxStr(i)>> : i \in 0..3} |-> DictNode]
    ELSE EmptyDoc

\* content beside the path: a title on the root, titles on the other format
\* variants, a second property beside "processing"
Siblings(d) ==
    [p \in (IF d >= 1 THEN {<<"title">>} ELSE {})
        \cup (IF d > 6
              THEN {SubSeq(ProcessingPath, 1, 6) \o <<IdxStr(i), "title">> : i \in 0..3}
              ELSE {})
        \cup (IF d >= 9
              THEN {SubSeq(ProcessingPath, 1, 8) \o <<"strategy">>}
              ELSE {})
     |-> Str(<<"t", IdxStr(Len(p))>>)]

Graft(p, tree) == [r \in {p \o q : q \in DOMAIN tree} |-> tree[SubSeq(r, Len(p) + 1, Len(r))]]

SchemaDoc(d, end, sib) ==
    Spine(d) @@ Graft(SubSeq(ProcessingPath, 1, d), end) @@ FormatVariants(d)
        @@ (IF sib THEN Siblings(d) ELSE EmptyDoc)

SchemaDocs ==
    {SchemaDoc(d, end, sib) :
        d \in 0..Len(ProcessingPath), end \in EndTrees, sib \in BOOLEAN}

(* ------------------------------ Config.schema -------------------------- *)
\* schema(): generated stands for what super().schema() returned
schema(generated) ==
    /\ schemaIn' = generated
    /\ IF ~Resolves(generated, ProcessingPath)
       THEN /\ schemaResult' = "KeyError"
            /\ schemaOut' = EmptyDoc
       ELSE LET processing_options == dpath_get(generated, ProcessingPath)
            IN  IF ~Sliceable(processing_options)
                THEN /\ schemaResult' = "TypeError"
                     /\ schemaOut' = EmptyDoc
                ELSE /\ schemaResult' = "returned"
                     /\ schemaOut' = dpath_set(generated, ProcessingPath,
                                               FirstOnly(processing_options))
    /\ UNCHANGED configVars

SchemaNext == \E generated \in SchemaDocs : schema(generated)

SchemaSpec == Init /\ [][SchemaNext]_vars

(* ----------------------- vocabulary of the claims ---------------------- *)
Built == result # "none"

\* the deployment mode in force at the call that built the current instance
CallMode == modeLog[Len(modeLog)]

\* a field of the input is set: it holds a non-empty string
IsSet(v) == v.t = "str" /\ v.s # <<>>

\* a field of the input is absent: left out, null, or the empty string
IsAbsent(v) == v.t \in {"missing", "none"} \/ v = Str(<<>>)

\* the string begins with the seven characters h t t p : / /
BeginsHttp(str) == Len(str) >= 7 /\ \A i \in 1..7 : str[i] = HttpPrefix[i]

\* the string begins with the eight characters h t t p s : / /
BeginsHttps(str) == Len(str) >= 8 /\ \A i \in 1..8 : str[i] = HttpsPrefix[i]

\* what the validator reads for a field: a field that failed to parse reads absent
Seen(f) == IF f \in DOMAIN values THEN values[f] ELSE None

PairIncomplete == IsSet(Seen("aws_access_key_id")) # IsSet(Seen("aws_secret_access_key"))
ChainIncomplete == IsSet(Seen("customer_role_arn")) /\ ~IsSet(Seen("role_arn"))
EndpointInsecure == IsSet(Seen("endpoint")) /\ BeginsHttp(Seen("endpoint").s)

(* -------------------------------- C1 ----------------------------------- *)
\* C1: whenever exactly one of aws_access_key_id / aws_secret_access_key is
\* set and the other is absent, the configuration is rejected with
\* CredentialPairIncomplete, whatever role_arn, customer_role_arn, endpoint
\* and the deployment mode are.
C1_CredentialPairRejected ==
    (/\ Built
     /\ \/ IsSet(raw.aws_access_key_id) /\ IsAbsent(raw.aws_secret_access_key)
        \/ IsSet(raw.aws_secret_access_key) /\ IsAbsent(raw.aws_access_key_id))
    => (result = "rejected" /\ rootError = "CredentialPairIncomplete")

\* a secret without a key is rejected although the role chain is broken too
\* and the endpoint is insecure in restricted mode
C1_Witness ==
    /\ Built
    /\ IsSet(raw.aws_secret_access_key) /\ IsAbsent(raw.aws_access_key_id)
    /\ IsSet(raw.customer_role_arn) /\ IsAbsent(raw.role_arn)
    /\ CallMode /\ EndpointInsecure
    /\ rootError = "CredentialPairIncomplete"

(* -------------------------------- C2 ----------------------------------- *)
\* C2 as stated: whenever customer_role_arn is set and role_arn is absent,
\* validation fails with RoleChainMissingParent.
C2_AsStated ==
    (Built /\ IsSet(raw.customer_role_arn) /\ IsAbsent(raw.role_arn))
    => rootError = "RoleChainMissingParent"

\* C2 amended: whenever customer_role_arn is set and role_arn is absent,
\* validation fails, with RoleChainMissingParent when the credential pair is
\* complete and with CredentialPairIncomplete when it is not; and whenever
\* role_arn is set to a non-empty value, validation does not fail with
\* RoleChainMissingParent.
C2_RoleChainRejected ==
    /\ (Built /\ IsSet(raw.customer_role_arn) /\ IsAbsent(raw.role_arn))
        => /\ result = "rejected"
           /\ rootError = IF PairIncomplete THEN "CredentialPairIncomplete"
                          ELSE "RoleChainMissingParent"
    /\ (Built /\ IsSet(raw.role_arn)) => rootError # "RoleChainMissingParent"

\* a chained role with an empty parent role and a complete credential pair
C2_Witness ==
    /\ Built
    /\ IsSet(raw.customer_role_arn) /\ raw.role_arn = Str(<<>>)
    /\ IsSet(raw.aws_access_key_id) /\ IsSet(raw.aws_secret_access_key)
    /\ rootError = "RoleChainMissingParent"

(* -------------------------------- C3 ----------------------------------- *)
\* C3: the endpoint check fails with InsecureEndpointInRestrictedMode exactly
\* when the deployment is restricted and endpoint is present, non-empty and
\* begins with "http://"; the error is never raised unless that check ran.
C3_EndpointCheck ==
    Built =>
        /\ rootError = "InsecureEndpointInRestrictedMode"
              => (checks # <<>> /\ checks[Len(checks)] = "endpoint")
        /\ (checks # <<>> /\ checks[Len(checks)] = "endpoint")
              => (rootError = "InsecureEndpointInRestrictedMode"
                    <=> (CallMode /\ EndpointInsecure))

\* an https endpoint passes the endpoint check in restricted mode
C3_Witness ==
    /\ Built /\ CallMode
    /\ checks # <<>> /\ checks[Len(checks)] = "endpoint"
    /\ IsSet(Seen("endpoint")) /\ BeginsHttps(Seen("endpoint").s)
    /\ rootError = "none"

(* ----------------------------- C4 and C5 ------------------------------- *)
\* the entries of the list at the pruning path of a document
OptionsAt(doc) ==
    {r \in DOMAIN doc : Len(r) = Len(ProcessingPath) + 1 /\ IsPrefix(ProcessingPath, r)}

ResolvesToList(doc) ==
    ProcessingPath \in DOMAIN doc /\ doc[ProcessingPath].t = "list"

FirstEntryPath == ProcessingPath \o <<"0">>

\* the node at r is outside the pruned list or inside its first entry
Untouched(r) ==
    \/ ~IsPrefix(ProcessingPath, r)
    \/ r = ProcessingPath
    \/ IsPrefix(FirstEntryPath, r)

\* C4: when the generated document holds a list of more than one entry at
\* the pruning path, schema returns a document that holds there a list of
\* exactly the original first entry, and that is equal to the generated
\* document everywhere else.
C4_PrunedToFirstEntry ==
    (/\ schemaResult # "none"
     /\ ResolvesToList(schemaIn)
     /\ Cardinality(OptionsAt(schemaIn)) > 1)
    => /\ schemaResult = "returned"
       /\ ResolvesToList(schemaOut)
       /\ OptionsAt(schemaOut) = {FirstEntryPath}
       /\ DOMAIN schemaOut = {r \in DOMAIN schemaIn : Untouched(r)}
       /\ \A r \in DOMAIN schemaOut : schemaOut[r] = schemaIn[r]

\* a list of the most options is pruned in a document with content beside it
C4_Witness ==
    /\ schemaResult = "returned"
    /\ ResolvesToList(schemaIn)
    /\ Cardinality(OptionsAt(schemaIn)) = MaxOptions
    /\ <<"title">> \in DOMAIN schemaIn
    /\ Cardinality(OptionsAt(schemaOut)) = 1

\* C5: when the pruning path does not lead to a list in the generated
\* document (a node on the way or the list itself is missing or of another
\* shape), schema ends with an error and returns no document.
C5_ShapeMismatchRaises ==
    (schemaResult # "none" /\ ~ResolvesToList(schemaIn))
    => schemaResult \in {"KeyError", "TypeError"}

(* -------------------------------- C6 ----------------------------------- *)
\* C6: whenever aws_access_key_id and aws_secret_access_key are both set or
\* both absent, validation does not fail with CredentialPairIncomplete,
\* whatever the other fields and the mode are; static credentials without
\* any role are accepted.
C6_CompletePairPasses ==
    /\ (/\ Built
        /\ \/ IsSet(raw.aws_access_key_id) /\ IsSet(raw.aws_secret_access_key)
           \/ IsAbsent(raw.aws_access_key_id) /\ IsAbsent(raw.aws_secret_access_key))
        => rootError # "CredentialPairIncomplete"
    /\ (/\ Built
        /\ IsSet(raw.aws_access_key_id) /\ IsSet(raw.aws_secret_access_key)
        /\ IsAbsent(raw.role_arn) /\ IsAbsent(raw.customer_role_arn)
        /\ fieldErrors = {}
        /\ ~(CallMode /\ EndpointInsecure))
        => result = "accepted"

\* static credentials, no role, accepted
C6_Witness ==
    /\ result = "accepted"
    /\ IsSet(raw.aws_access_key_id) /\ IsSet(raw.aws_secret_access_key)
    /\ raw.role_arn = None /\ raw.customer_role_arn = None

(* -------------------------------- C7 ----------------------------------- *)
\* C7 as stated: every instance accepted in restricted mode has an endpoint
\* that is absent, empty or begins with "https://".
C7_AsStated ==
    (result = "accepted" /\ CallMode)
    => \/ ~IsSet(Seen("endpoint"))
       \/ BeginsHttps(Seen("endpoint").s)

\* C7 amended: every instance accepted in restricted mode has an endpoint
\* that is absent, empty or does not begin with "http://".
C7_AcceptedEndpointNotHttp ==
    (result = "accepted" /\ CallMode) => ~EndpointInsecure

\* a bare host name is accepted in restricted mode
C7_Witness ==
    /\ result = "accepted" /\ CallMode
    /\ Seen("endpoint") = Str(<<"a">>)

(* -------------------------------- C8 ----------------------------------- *)
\* C8: the checks run in the order credential pair, role chaining, endpoint;
\* validation stops at the first one that fails, its error is the one
\* raised, and no later check is evaluated.
C8_FirstFailureWins ==
    (Built /\ checks # <<>>) =>
        IF PairIncomplete
        THEN /\ rootError = "CredentialPairIncomplete"
             /\ checks = <<"credential_pair">>
        ELSE IF ChainIncomplete
        THEN /\ rootError = "RoleChainMissingParent"
             /\ checks = <<"credential_pair", "role_chaining">>
        ELSE /\ checks = <<"credential_pair", "role_chaining", "endpoint">>
             /\ rootError = IF CallMode /\ EndpointInsecure
                            THEN "InsecureEndpointInRestrictedMode" ELSE "none"

\* all three rules are broken at once and the credential error is raised
C8_Witness ==
    /\ Built
    /\ PairIncomplete /\ ChainIncomplete /\ CallMode /\ EndpointInsecure
    /\ rootError = "CredentialPairIncomplete"
    /\ checks = <<"credential_pair">>

(* -------------------------------- C9 ----------------------------------- *)
\* C9: when a field fails field-level parsing, the cross-field checks are
\* not evaluated and no cross-field error is produced.
C9_ChecksOnlyAfterFieldsParse ==
    (Built /\ fieldErrors # {}) => (checks = <<>> /\ rootError = "none")

(* -------------------------------- C10 ---------------------------------- *)
\* C10: the outcome of every call is the one determined by the deployment
\* mode in force at that call, also when the mode differs from the mode of
\* the call before.
C10_ModeReadPerCall ==
    Built =>
        (result = "accepted"
            <=> (/\ fieldErrors = {}
                 /\ ~PairIncomplete
                 /\ ~ChainIncomplete
                 /\ ~(CallMode /\ EndpointInsecure)))

\* an http endpoint is rejected in restricted mode right after a call made
\* in unrestricted mode
C10_Witness ==
    /\ Built
    /\ Len(modeLog) = 2 /\ ~modeLog[1] /\ modeLog[2]
    /\ rootError = "InsecureEndpointInRestrictedMode"

====
